---- MODULE Spec2Model ----
(***************************************************************************)
(* Model of canopycover/terra_canopycover.py: the traits table helpers and *)
(* CanopyCoverHeight.process_message, the per-field batch loop that clips  *)
(* every plot, estimates its canopy cover, appends a CSV row, dispatches a *)
(* geostream data point, then submits the CSV and annotates the dataset.   *)
(*                                                                         *)
(* Python strings are sequences of atoms (an atom is one character, or a   *)
(* run of characters that is never cut; ",", "\n", " - ", ".", "/" and the *)
(* digits are atoms of their own), so that join, split, replace, endswith  *)
(* and the regular expression of check_message do real work.               *)
(* Library calls (get_info, open, get_site_boundaries, clip_raster,        *)
(* calculate_canopycover, centroid_from_geojson,                           *)
(* create_datapoint_with_dependencies, submit_traits, upload_metadata)     *)
(* are opaque: each either returns one of a small set of results or raises.*)
(***************************************************************************)
EXTENDS Integers, Sequences, FiniteSets, TLC

\* ------------------------------------------------------------------ bounds

\* Largest number of plots get_site_boundaries returns in one run.
MaxPlots == 3

\* Largest number of messages the host hands to the extractor.
MaxMessages == 2

\* ----------------------------------------------------------- Python values

COMMA == ","
NL == "\n"

\* A Python str value / the empty list [] (the two kinds the traits table holds).
PyS(s) == [t |-> "str", s |-> s]
PyEmptyList == [t |-> "list", s |-> <<>>]

\* str(v) of a traits-table value: a str is itself, [] prints as "[]".
PyStr(v) == IF v.t = "list" THEN <<"[]">> ELSE v.s

\* str(x) of a canopy-cover float given in hundredths (42 is 0.42).
PyStrFloat(n) ==
    <<ToString(n \div 100), ".", ToString((n % 100) \div 10), ToString(n % 10)>>

RECURSIVE Join(_, _)
\* sep.join(parts): parts is a sequence of strings.
Join(parts, sep) ==
    IF Len(parts) = 0 THEN <<>>
    ELSE IF Len(parts) = 1 THEN parts[1]
    ELSE parts[1] \o <<sep>> \o Join(Tail(parts), sep)

RECURSIVE SplitAcc(_, _, _)
SplitAcc(s, sep, cur) ==
    IF Len(s) = 0 THEN <<cur>>
    ELSE IF Head(s) = sep THEN <<cur>> \o SplitAcc(Tail(s), sep, <<>>)
    ELSE SplitAcc(Tail(s), sep, Append(cur, Head(s)))

\* A split that drops empty parts, as s.split() without a separator does.
SplitSkipEmpty(s, sep) == SelectSeq(SplitAcc(s, sep, <<>>), LAMBDA part : part # <<>>)

\* s.split(sep): always at least one part, one more than the separators in s.
Split(s, sep) == SplitAcc(s, sep, <<>>)

RECURSIVE Replace(_, _, _)
\* s.replace(old, new): every occurrence of the non-empty string old, left to
\* right and without overlap.
Replace(s, old, new) ==
    IF Len(s) < Len(old) THEN s
    ELSE IF SubSeq(s, 1, Len(old)) = old
         THEN new \o Replace(SubSeq(s, Len(old) + 1, Len(s)), old, new)
         ELSE <<Head(s)>> \o Replace(Tail(s), old, new)

\* s.endswith(a) for a one-atom a.
EndsWith(s, a) == Len(s) > 0 /\ s[Len(s)] = a

\* ------------------------------------------------------------ traits table

\* get_traits_table()[0]
fields ==
    << <<"local_datetime">>, <<"canopy_cover">>, <<"access_level">>, <<"species">>,
       <<"site">>, <<"citation_author">>, <<"citation_year">>, <<"citation_title">>,
       <<"method">> >>

\* The traits table with an author that holds no comma.
InitialTraitsNoComma ==
    [ local_datetime  |-> PyS(<<>>),
      canopy_cover    |-> PyEmptyList,
      access_level    |-> PyS(<<"2">>),
      species         |-> PyS(<<"Sorghum bicolor">>),
      site            |-> PyEmptyList,
      citation_author |-> PyS(<<"\"Zongyang Li\"">>),
      citation_year   |-> PyS(<<"2016">>),
      citation_title  |-> PyS(<<"Maricopa Field Station Data and Metadata">>),
      method          |-> PyS(<<"Canopy Cover Estimation from RGB images">>) ]

\* get_traits_table()[1]
InitialTraits ==
    [ local_datetime  |-> PyS(<<>>),
      canopy_cover    |-> PyEmptyList,
      access_level    |-> PyS(<<"2">>),
      species         |-> PyS(<<"Sorghum bicolor">>),
      site            |-> PyEmptyList,
      citation_author |-> PyS(<<"\"Zongyang", COMMA, " Li\"">>),
      citation_year   |-> PyS(<<"2016">>),
      citation_title  |-> PyS(<<"Maricopa Field Station Data and Metadata">>),
      method          |-> PyS(<<"Canopy Cover Estimation from RGB images">>) ]

\* generate_traits_list with site and species in each other's place.
generate_traits_list_swapped(tr) ==
    << tr.local_datetime, tr.canopy_cover, tr.access_level, tr.site, tr.species,
       tr.citation_author, tr.citation_year, tr.citation_title, tr.method >>

generate_traits_list(tr) ==
    << tr.local_datetime, tr.canopy_cover, tr.access_level, tr.species, tr.site,
       tr.citation_author, tr.citation_year, tr.citation_title, tr.method >>

\* map(str, seq)
MapStr(seq) == [i \in 1..Len(seq) |-> PyStr(seq[i])]

\* ','.join(map(str, trait_list)) + '\n'
RowLine(trait_list) == Join(MapStr(trait_list), COMMA) \o <<NL>>

\* ','.join(map(str, fields)) + '\n'
HeaderLine == Join(fields, COMMA) \o <<NL>>

\* ------------------------------------------------------------------ inputs

\* The host argument, with and without its trailing slash.
Hosts == { <<"https://clowder">>, <<"https://clowder", "/">> }

\* ds_info['name'] as get_info may return it; the last has no " - " part.
DsNames ==
    { <<"Full Field", " - ", "2016-07-01">>,
      <<"Full Field", " - ", "2017-05-20">>,
      <<"Full Field">> }

\* self.bety_key, self.extractor_info
bety_key == <<"SECRET">>
extractor_info == [name |-> <<"terra.stereo-rgb.canopycover">>]
BetyLink ==
    <<"https://terraref.ncsa.illinois.edu", "/", "bety", "/", "api", "/", "beta", "/",
      "variables?name=canopy_cover">>

\* Plot names known to the boundary registry, and each one's bounds (GeoJSON).
PlotIds == 1..MaxPlots
PlotName(i) == <<"MAC Field Scanner Season 1 Range ", ToString(i)>>
PlotNames == {PlotName(i) : i \in PlotIds}
PlotIdOf(name) == CHOOSE i \in PlotIds : PlotName(i) = name
BoundsOf(name) == [geojson |-> "Polygon", plot |-> PlotIdOf(name)]

\* json.loads(centroid_from_geojson(bounds)): "coordinates" is [lon, lat].
CentroidOf(b) == [type |-> "Point", coordinates |-> <<-111 - b.plot, 33 + b.plot>>]

\* Values calculate_canopycover may return, in hundredths.
CCVals == {42, 57}

\* len(pxarray.shape) of what clip_raster may return.
ClipDims == {2, 3}

\* Every dict get_site_boundaries may return, as its keys in iteration order:
\* any set of registered plots, the empty one included. The code never looks
\* into a plot name, so one iteration order per key set is enumerated.
PlotMappings ==
    UNION { {q \in [1..n -> PlotNames] :
                \A i, j \in 1..n : i < j => PlotIdOf(q[i]) < PlotIdOf(q[j])}
            : n \in 0..MaxPlots }

\* Value of ccVal before its first assignment.
Unbound == -1

\* ------------------------------------------------------------------- state

VARIABLES
    pc,               \* position in process_message
    host,             \* the host argument
    timestamp,        \* line 90
    out_csv,          \* line 91
    csv_file,         \* the file object of line 96: state, strings written, close() calls
    traits,           \* the traits table of line 97
    all_plots,        \* keys of the dict of line 101, in iteration order
    idx,              \* number of keys the for loop has taken
    plotname,         \* loop variable
    bounds,           \* line 105
    pxdims,           \* len(pxarray.shape) of the last clip
    ccVal,            \* line 114
    successful_plots, \* line 103, 116
    centroid_lonlat,  \* line 130
    dp_calls,         \* invocations of create_datapoint_with_dependencies
    submit_calls,     \* invocations of submit_traits
    upload_calls,     \* invocations of upload_metadata
    ended,            \* end_message was called
    log,              \* log_info / log_error messages emitted
    exc,              \* exceptions raised so far (the last one is propagating)
    trace,            \* library calls made by this run, in order
    res_name,         \* resource['name'] of the message being handled
    overwrite,        \* self.overwrite
    check_result,     \* what check_message returned for this message
    messages,         \* messages the extractor has finished with
    ds_md,            \* the parent dataset carries this extractor's metadata
    annotation_attempted, \* some run invoked upload_metadata
    annotation_returned,  \* some run's upload_metadata returned
    rt                \* a Trait Record being written and read back

vars ==
    << pc, host, timestamp, out_csv, csv_file, traits, all_plots, idx, plotname,
       bounds, pxdims, ccVal, successful_plots, centroid_lonlat, dp_calls,
       submit_calls, upload_calls, ended, log, exc, trace, res_name, overwrite,
       check_result, messages, ds_md, annotation_attempted, annotation_returned, rt >>

\* What process_message only reads, and what only its annotation step changes.
hostvars == <<res_name, overwrite, check_result, messages>>
dsvars == <<ds_md, annotation_attempted, annotation_returned>>

\* resource['name'] of a full-field RGB thumbnail.
ThumbName == <<"fullfield", "_L1_ua-mac_", "2", "0", "1", "6", "_rgb_", "thumb", ".", "tif">>

\* resource['name'], resource['id'], resource['parent']['id'], resource['local_paths'][0]
resource ==
    [ name        |-> res_name,
      id          |-> <<"5873a8ae">>,
      parent      |-> [id |-> <<"5873a7c4">>],
      local_paths |-> << <<"/data/">> \o res_name >> ]

\* No Trait Record is being read back.
NoRoundTrip == [step |-> "off", fields |-> <<>>, line |-> <<>>, parts |-> <<>>]

Init ==
    /\ pc = "start"
    /\ host \in Hosts
    /\ timestamp = <<>>
    /\ out_csv = <<>>
    /\ csv_file = [state |-> "unopened", content |-> <<>>, closes |-> 0]
    /\ traits = InitialTraits
    /\ all_plots = <<>>
    /\ idx = 0
    /\ plotname = <<>>
    /\ bounds = [geojson |-> "none", plot |-> 0]
    /\ pxdims = 0
    /\ ccVal = Unbound
    /\ successful_plots = 0
    /\ centroid_lonlat = <<>>
    /\ dp_calls = <<>>
    /\ submit_calls = <<>>
    /\ upload_calls = <<>>
    /\ ended = FALSE
    /\ log = <<>>
    /\ exc = <<>>
    /\ trace = <<>>
    /\ res_name = ThumbName
    /\ overwrite = FALSE
    /\ check_result = "download"
    /\ messages = 0
    /\ ds_md = FALSE
    /\ annotation_attempted = FALSE
    /\ annotation_returned = FALSE
    /\ rt = NoRoundTrip

\* self.log_info(resource, msg) / self.log_error(resource, msg)
LogEntry(level, what, arg) == [level |-> level, what |-> what, arg |-> arg]

\* An exception leaves process_message: nothing after the raising line runs.
Raise(what) ==
    /\ pc' = "failed"
    /\ exc' = Append(exc, what)

\* What a library call came back with: a value (0 when it has none) or an exception.
Returned(v) == [ok |-> TRUE, val |-> v]
Raised == [ok |-> FALSE, val |-> 0]

Call(op, arg, ret) == trace' = Append(trace, [op |-> op, arg |-> arg, ret |-> ret])

\* ----------------------------------------------------------------- actions

\* Lines 86-95: start_message, get_info, the timestamp and the CSV's name.
\* get_info may raise; [1] raises IndexError when the name has no " - ".
StartMessage ==
    /\ pc = "start"
    /\ UNCHANGED <<hostvars, dsvars, rt>>
    /\ \/ /\ Call("get_info", <<>>, Raised)
          /\ Raise("get_info")
          /\ UNCHANGED <<timestamp, out_csv, log>>
       \/ \E name \in DsNames :
            LET parts == Split(name, " - ") IN
            /\ Call("get_info", <<>>, Returned(0))
            /\ IF Len(parts) < 2
               THEN /\ Raise("IndexError")
                    /\ UNCHANGED <<timestamp, out_csv, log>>
               ELSE /\ timestamp' = parts[2]
                    /\ out_csv' = Replace(resource.name, <<".", "tif">>, <<"_canopycover.csv">>)
                    /\ log' = Append(log, LogEntry("info", "Writing CSV", <<>>))
                    /\ pc' = "open"
                    /\ UNCHANGED exc
    /\ UNCHANGED << host, csv_file, traits, all_plots, idx, plotname, bounds, pxdims,
                    ccVal, successful_plots, centroid_lonlat, dp_calls, submit_calls,
                    upload_calls, ended >>

\* Lines 96-98: open the CSV for writing (truncating it), build the traits
\* table, write the header line. open may raise.
OpenCsv ==
    /\ pc = "open"
    /\ UNCHANGED <<hostvars, dsvars, rt>>
    /\ \/ /\ Call("open", <<>>, Raised)
          /\ Raise("open")
          /\ UNCHANGED <<csv_file, traits>>
       \/ /\ Call("open", <<>>, Returned(0))
          /\ csv_file' = [state |-> "open", content |-> <<HeaderLine>>, closes |-> 0]
          /\ traits' = InitialTraits
          /\ pc' = "enumerate"
          /\ UNCHANGED exc
    /\ UNCHANGED << host, timestamp, out_csv, all_plots, idx, plotname, bounds, pxdims,
                    ccVal, successful_plots, centroid_lonlat, dp_calls, submit_calls,
                    upload_calls, ended, log >>

\* Lines 101-103: get_site_boundaries(timestamp, city='Maricopa') returns a
\* dict (possibly empty) or raises; successful_plots = 0.
Enumerate ==
    /\ pc = "enumerate"
    /\ UNCHANGED <<hostvars, dsvars, rt>>
    /\ \/ /\ Call("get_site_boundaries", <<>>, Raised)
          /\ Raise("get_site_boundaries")
          /\ UNCHANGED <<all_plots, successful_plots, log>>
       \/ \E m \in PlotMappings :
            /\ Call("get_site_boundaries", <<>>, Returned(Len(m)))
            /\ all_plots' = m
            /\ log' = Append(log, LogEntry("info", "found plots", <<>>))
            /\ successful_plots' = 0
            /\ pc' = "loop"
            /\ UNCHANGED exc
    /\ UNCHANGED << host, timestamp, out_csv, csv_file, traits, idx, plotname, bounds,
                    pxdims, ccVal, centroid_lonlat, dp_calls, submit_calls,
                    upload_calls, ended >>

\* LoopHead with the loop bound off by one: the last key is never taken.
LoopHeadOffByOne ==
    /\ pc = "loop"
    /\ UNCHANGED <<hostvars, dsvars, rt>>
    /\ IF idx + 1 < Len(all_plots)
       THEN /\ idx' = idx + 1
            /\ plotname' = all_plots[idx + 1]
            /\ bounds' = BoundsOf(all_plots[idx + 1])
            /\ pc' = "clip"
       ELSE /\ pc' = "close"
            /\ UNCHANGED <<idx, plotname, bounds>>
    /\ UNCHANGED << host, timestamp, out_csv, csv_file, traits, all_plots, pxdims,
                    ccVal, successful_plots, centroid_lonlat, dp_calls, submit_calls,
                    upload_calls, ended, log, exc, trace >>

\* LoopHead that goes over the first key a second time before the loop ends.
LoopHeadRevisit ==
    /\ pc = "loop"
    /\ UNCHANGED <<hostvars, dsvars, rt>>
    /\ IF idx < Len(all_plots)
       THEN /\ idx' = idx + 1
            /\ plotname' = all_plots[idx + 1]
            /\ bounds' = BoundsOf(all_plots[idx + 1])
            /\ pc' = "clip"
       ELSE IF Len(all_plots) > 0 /\ plotname # all_plots[1]
            THEN /\ plotname' = all_plots[1]
                 /\ bounds' = BoundsOf(all_plots[1])
                 /\ pc' = "clip"
                 /\ UNCHANGED idx
            ELSE /\ pc' = "close"
                 /\ UNCHANGED <<idx, plotname, bounds>>
    /\ UNCHANGED << host, timestamp, out_csv, csv_file, traits, all_plots, pxdims,
                    ccVal, successful_plots, centroid_lonlat, dp_calls, submit_calls,
                    upload_calls, ended, log, exc, trace >>

\* Lines 104-105: the for statement takes the next key, or the loop ends.
LoopHead ==
    /\ pc = "loop"
    /\ UNCHANGED <<hostvars, dsvars, rt>>
    /\ IF idx < Len(all_plots)
       THEN /\ idx' = idx + 1
            /\ plotname' = all_plots[idx + 1]
            /\ bounds' = BoundsOf(all_plots[idx + 1])
            /\ pc' = "clip"
       ELSE /\ pc' = "close"
            /\ UNCHANGED <<idx, plotname, bounds>>
    /\ UNCHANGED << host, timestamp, out_csv, csv_file, traits, all_plots, pxdims,
                    ccVal, successful_plots, centroid_lonlat, dp_calls, submit_calls,
                    upload_calls, ended, log, exc, trace >>

\* ClipRaster without the `continue` of line 112: a degenerate array is
\* logged and then estimated like any other.
ClipRasterNoSkip ==
    /\ pc = "clip"
    /\ UNCHANGED <<hostvars, dsvars, rt>>
    /\ \/ /\ Call("clip_raster", plotname, Raised)
          /\ exc' = Append(exc, "clip_raster")
          /\ pc' = "except"
          /\ UNCHANGED <<pxdims, log>>
       \/ \E d \in ClipDims :
            /\ Call("clip_raster", plotname, Returned(d))
            /\ pxdims' = d
            /\ log' = IF d < 3
                      THEN Append(log, LogEntry("error", "unexpected array shape", plotname))
                      ELSE log
            /\ pc' = "estimate"
            /\ UNCHANGED exc
    /\ UNCHANGED << host, timestamp, out_csv, csv_file, traits, all_plots, idx, plotname,
                    bounds, ccVal, successful_plots, centroid_lonlat, dp_calls,
                    submit_calls, upload_calls, ended >>

\* Lines 108-112: clip_raster returns an array or raises (into the except
\* clause); an array of fewer than 3 dimensions is logged and skipped.
ClipRaster ==
    /\ pc = "clip"
    /\ UNCHANGED <<hostvars, dsvars, rt>>
    /\ \/ /\ Call("clip_raster", plotname, Raised)
          /\ exc' = Append(exc, "clip_raster")
          /\ pc' = "except"
          /\ UNCHANGED <<pxdims, log>>
       \/ \E d \in ClipDims :
            /\ Call("clip_raster", plotname, Returned(d))
            /\ pxdims' = d
            /\ IF d < 3
               THEN /\ log' = Append(log, LogEntry("error", "unexpected array shape", plotname))
                    /\ pc' = "loop"
               ELSE /\ pc' = "estimate"
                    /\ UNCHANGED log
            /\ UNCHANGED exc
    /\ UNCHANGED << host, timestamp, out_csv, csv_file, traits, all_plots, idx, plotname,
                    bounds, ccVal, successful_plots, centroid_lonlat, dp_calls,
                    submit_calls, upload_calls, ended >>

\* Estimate that counts the plot before the estimate is known to have come back.
EstimateCountsFirst ==
    /\ pc = "estimate"
    /\ UNCHANGED <<hostvars, dsvars, rt>>
    /\ successful_plots' = successful_plots + 1
    /\ \/ /\ Call("calculate_canopycover", plotname, Raised)
          /\ exc' = Append(exc, "calculate_canopycover")
          /\ pc' = "except"
          /\ UNCHANGED <<ccVal, log>>
       \/ \E v \in CCVals :
            /\ Call("calculate_canopycover", plotname, Returned(v))
            /\ ccVal' = v
            /\ log' = IF (successful_plots + 1) % 10 = 0
                      THEN Append(log, LogEntry("info", "processed plots", plotname))
                      ELSE log
            /\ pc' = "record"
            /\ UNCHANGED exc
    /\ UNCHANGED << host, timestamp, out_csv, csv_file, traits, all_plots, idx, plotname,
                    bounds, pxdims, centroid_lonlat, dp_calls, submit_calls,
                    upload_calls, ended >>

\* Lines 114-118: calculate_canopycover(rollaxis(pxarray,0,3)) returns a value
\* or raises (into the except clause); count the plot, log every tenth.
Estimate ==
    /\ pc = "estimate"
    /\ UNCHANGED <<hostvars, dsvars, rt>>
    /\ \/ /\ Call("calculate_canopycover", plotname, Raised)
          /\ exc' = Append(exc, "calculate_canopycover")
          /\ pc' = "except"
          /\ UNCHANGED <<ccVal, successful_plots, log>>
       \/ \E v \in CCVals :
            /\ Call("calculate_canopycover", plotname, Returned(v))
            /\ ccVal' = v
            /\ successful_plots' = successful_plots + 1
            /\ log' = IF (successful_plots + 1) % 10 = 0
                      THEN Append(log, LogEntry("info", "processed plots", plotname))
                      ELSE log
            /\ pc' = "record"
            /\ UNCHANGED exc
    /\ UNCHANGED << host, timestamp, out_csv, csv_file, traits, all_plots, idx, plotname,
                    bounds, pxdims, centroid_lonlat, dp_calls, submit_calls,
                    upload_calls, ended >>

\* Positional parameters of log_error after self, as the calls of lines 78,
\* 82 and 111 pass them: (resource, msg).
log_error_params == 2

\* Whether a call of log_error with nargs positional arguments binds.
LogErrorBinds(nargs) == nargs = log_error_params

\* Lines 119-121: the bare except clause. It calls self.log_error with the
\* message alone, which does not bind (resource, msg): the TypeError raised
\* inside the handler leaves process_message before `continue` is reached.
ExceptClause ==
    /\ pc = "except"
    /\ UNCHANGED <<hostvars, dsvars, rt>>
    /\ IF LogErrorBinds(1)
       THEN /\ log' = Append(log, LogEntry("error", "error generating cc", plotname))
            /\ pc' = "loop"
            /\ UNCHANGED exc
       ELSE /\ Raise("TypeError")
            /\ UNCHANGED log
    /\ UNCHANGED << host, timestamp, out_csv, csv_file, traits, all_plots, idx, plotname,
                    bounds, pxdims, ccVal, successful_plots, centroid_lonlat, dp_calls,
                    submit_calls, upload_calls, ended, trace >>

\* Record without line 123: canopy_cover keeps whatever the table held.
RecordKeepsCover ==
    /\ pc = "record"
    /\ UNCHANGED <<hostvars, dsvars, rt>>
    /\ LET tr == [traits EXCEPT !.site = PyS(plotname),
                                !.local_datetime = PyS(timestamp \o <<"T12:00:00">>)]
           trait_list == generate_traits_list(tr)
       IN /\ traits' = tr
          /\ csv_file' = [csv_file EXCEPT !.content = Append(@, RowLine(trait_list))]
    /\ Call("write", plotname, Returned(0))
    /\ pc' = "centroid"
    /\ UNCHANGED << host, timestamp, out_csv, all_plots, idx, plotname, bounds, pxdims,
                    ccVal, successful_plots, centroid_lonlat, dp_calls, submit_calls,
                    upload_calls, ended, log, exc >>

\* Lines 123-127: fill the shared traits table and append the plot's row.
Record ==
    /\ pc = "record"
    /\ UNCHANGED <<hostvars, dsvars, rt>>
    /\ LET tr == [traits EXCEPT !.canopy_cover = PyS(PyStrFloat(ccVal)),
                                !.site = PyS(plotname),
                                !.local_datetime = PyS(timestamp \o <<"T12:00:00">>)]
           trait_list == generate_traits_list(tr)
       IN /\ traits' = tr
          /\ csv_file' = [csv_file EXCEPT !.content = Append(@, RowLine(trait_list))]
    /\ Call("write", plotname, Returned(0))
    /\ pc' = "centroid"
    /\ UNCHANGED << host, timestamp, out_csv, all_plots, idx, plotname, bounds, pxdims,
                    ccVal, successful_plots, centroid_lonlat, dp_calls, submit_calls,
                    upload_calls, ended, log, exc >>

\* Line 130: json.loads(centroid_from_geojson(bounds))["coordinates"], outside
\* the try statement: an exception leaves process_message.
Centroid ==
    /\ pc = "centroid"
    /\ UNCHANGED <<hostvars, dsvars, rt>>
    /\ \/ /\ Call("centroid_from_geojson", plotname, Raised)
          /\ Raise("centroid_from_geojson")
          /\ UNCHANGED centroid_lonlat
       \/ /\ Call("centroid_from_geojson", plotname, Returned(0))
          /\ centroid_lonlat' = CentroidOf(bounds).coordinates
          /\ pc' = "dispatch"
          /\ UNCHANGED exc
    /\ UNCHANGED << host, timestamp, out_csv, csv_file, traits, all_plots, idx, plotname,
                    bounds, pxdims, ccVal, successful_plots, dp_calls, submit_calls,
                    upload_calls, ended, log >>

\* DataPoint with the centroid passed on as it came, (lon, lat).
DataPointLonLat ==
    LET time_fmt == timestamp \o <<"T12:00:00-07:00">>
        dpmetadata ==
            [ source |-> host \o (IF EndsWith(host, "/") THEN <<>> ELSE <<"/">>)
                              \o <<"files", "/">> \o resource.id,
              canopy_cover |-> ccVal ]
    IN [ name       |-> <<"Canopy Cover">>,
         location   |-> <<centroid_lonlat[1], centroid_lonlat[2]>>,
         start_time |-> time_fmt,
         end_time   |-> time_fmt,
         metadata   |-> dpmetadata,
         key        |-> timestamp ]

\* The data point of lines 131-138.
DataPoint ==
    LET time_fmt == timestamp \o <<"T12:00:00-07:00">>
        dpmetadata ==
            [ source |-> host \o (IF EndsWith(host, "/") THEN <<>> ELSE <<"/">>)
                              \o <<"files", "/">> \o resource.id,
              canopy_cover |-> ccVal ]
    IN [ name       |-> <<"Canopy Cover">>,
         location   |-> <<centroid_lonlat[2], centroid_lonlat[1]>>,
         start_time |-> time_fmt,
         end_time   |-> time_fmt,
         metadata   |-> dpmetadata,
         key        |-> timestamp ]

\* Dispatch moved inside the try statement: its exception goes to the except
\* clause.
DispatchGuarded ==
    /\ pc = "dispatch"
    /\ UNCHANGED <<hostvars, dsvars, rt>>
    /\ dp_calls' = Append(dp_calls, DataPoint)
    /\ \/ /\ Call("create_datapoint_with_dependencies", plotname, Raised)
          /\ exc' = Append(exc, "create_datapoint_with_dependencies")
          /\ pc' = "except"
       \/ /\ Call("create_datapoint_with_dependencies", plotname, Returned(0))
          /\ pc' = "loop"
          /\ UNCHANGED exc
    /\ UNCHANGED << host, timestamp, out_csv, csv_file, traits, all_plots, idx, plotname,
                    bounds, pxdims, ccVal, successful_plots, centroid_lonlat,
                    submit_calls, upload_calls, ended, log >>

\* Lines 131-138: create_datapoint_with_dependencies is invoked, outside the
\* try statement; it returns or raises, and an exception leaves process_message.
Dispatch ==
    /\ pc = "dispatch"
    /\ UNCHANGED <<hostvars, dsvars, rt>>
    /\ dp_calls' = Append(dp_calls, DataPoint)
    /\ \/ /\ Call("create_datapoint_with_dependencies", plotname, Raised)
          /\ Raise("create_datapoint_with_dependencies")
       \/ /\ Call("create_datapoint_with_dependencies", plotname, Returned(0))
          /\ pc' = "loop"
          /\ UNCHANGED exc
    /\ UNCHANGED << host, timestamp, out_csv, csv_file, traits, all_plots, idx, plotname,
                    bounds, pxdims, ccVal, successful_plots, centroid_lonlat,
                    submit_calls, upload_calls, ended, log >>

\* CloseCsv that closes the file only when a row was written.
CloseCsvIfRows ==
    /\ pc = "close"
    /\ UNCHANGED <<hostvars, dsvars, rt>>
    /\ csv_file' = IF successful_plots > 0
                   THEN [csv_file EXCEPT !.state = "closed", !.closes = @ + 1]
                   ELSE csv_file
    /\ Call("close", <<>>, Returned(0))
    /\ log' = Append(log, LogEntry("info", "submitting CSV to bety", <<>>))
    /\ pc' = "submit"
    /\ UNCHANGED << host, timestamp, out_csv, traits, all_plots, idx, plotname, bounds,
                    pxdims, ccVal, successful_plots, centroid_lonlat, dp_calls,
                    submit_calls, upload_calls, ended, exc >>

\* Lines 141-142: csv_file.close().
CloseCsv ==
    /\ pc = "close"
    /\ UNCHANGED <<hostvars, dsvars, rt>>
    /\ csv_file' = [csv_file EXCEPT !.state = "closed", !.closes = @ + 1]
    /\ Call("close", <<>>, Returned(0))
    /\ log' = Append(log, LogEntry("info", "submitting CSV to bety", <<>>))
    /\ pc' = "submit"
    /\ UNCHANGED << host, timestamp, out_csv, traits, all_plots, idx, plotname, bounds,
                    pxdims, ccVal, successful_plots, centroid_lonlat, dp_calls,
                    submit_calls, upload_calls, ended, exc >>

\* SubmitTraits with the exception of submit_traits swallowed.
SubmitTraitsSwallow ==
    /\ pc = "submit"
    /\ UNCHANGED <<hostvars, dsvars, rt>>
    /\ submit_calls' = Append(submit_calls,
                              [csv |-> out_csv, content |-> csv_file.content,
                               betykey |-> bety_key])
    /\ \/ /\ Call("submit_traits", <<>>, Raised)
          /\ exc' = Append(exc, "submit_traits")
       \/ /\ Call("submit_traits", <<>>, Returned(0))
          /\ UNCHANGED exc
    /\ log' = Append(log, LogEntry("info", "updating dataset metadata", <<>>))
    /\ pc' = "annotate"
    /\ UNCHANGED << host, timestamp, out_csv, csv_file, traits, all_plots, idx, plotname,
                    bounds, pxdims, ccVal, successful_plots, centroid_lonlat, dp_calls,
                    upload_calls, ended >>

\* Line 143: submit_traits(out_csv, betykey=self.bety_key) returns or raises.
SubmitTraits ==
    /\ pc = "submit"
    /\ UNCHANGED <<hostvars, dsvars, rt>>
    /\ submit_calls' = Append(submit_calls,
                              [csv |-> out_csv, content |-> csv_file.content,
                               betykey |-> bety_key])
    /\ \/ /\ Call("submit_traits", <<>>, Raised)
          /\ Raise("submit_traits")
          /\ UNCHANGED log
       \/ /\ Call("submit_traits", <<>>, Returned(0))
          /\ log' = Append(log, LogEntry("info", "updating dataset metadata", <<>>))
          /\ pc' = "annotate"
          /\ UNCHANGED exc
    /\ UNCHANGED << host, timestamp, out_csv, csv_file, traits, all_plots, idx, plotname,
                    bounds, pxdims, ccVal, successful_plots, centroid_lonlat, dp_calls,
                    upload_calls, ended >>

\* ExtMeta with plots_skipped left at the number of enumerated plots.
ExtMetaNoSubtract ==
    [ plots_processed |-> successful_plots,
      plots_skipped   |-> Len(all_plots),
      betydb_link     |-> BetyLink ]

\* The content argument of build_metadata, lines 147-151.
ExtMeta ==
    [ plots_processed |-> successful_plots,
      plots_skipped   |-> Len(all_plots) - successful_plots,
      betydb_link     |-> BetyLink ]

\* Lines 147-152: build_metadata and upload_metadata, which returns, the
\* metadata then being attached to the dataset, or raises, the request having
\* reached the dataset or not.
Annotate ==
    /\ pc = "annotate"
    /\ UNCHANGED <<hostvars, rt>>
    /\ upload_calls' = Append(upload_calls,
                              [dataset |-> resource.parent.id,
                               agent |-> extractor_info.name,
                               content |-> ExtMeta])
    /\ annotation_attempted' = TRUE
    /\ \/ /\ Call("upload_metadata", <<>>, Raised)
          /\ Raise("upload_metadata")
          /\ ds_md' \in {ds_md, TRUE}
          /\ UNCHANGED annotation_returned
       \/ /\ Call("upload_metadata", <<>>, Returned(0))
          /\ ds_md' = TRUE
          /\ annotation_returned' = TRUE
          /\ pc' = "end"
          /\ UNCHANGED exc
    /\ UNCHANGED << host, timestamp, out_csv, csv_file, traits, all_plots, idx, plotname,
                    bounds, pxdims, ccVal, successful_plots, centroid_lonlat, dp_calls,
                    submit_calls, ended, log >>

\* Line 154: self.end_message().
EndMessage ==
    /\ pc = "end"
    /\ UNCHANGED <<hostvars, dsvars, rt>>
    /\ ended' = TRUE
    /\ Call("end_message", <<>>, Returned(0))
    /\ pc' = "done"
    /\ UNCHANGED << host, timestamp, out_csv, csv_file, traits, all_plots, idx, plotname,
                    bounds, pxdims, ccVal, successful_plots, centroid_lonlat, dp_calls,
                    submit_calls, upload_calls, log, exc >>

Next ==
    \/ StartMessage
    \/ OpenCsv
    \/ Enumerate
    \/ LoopHead
    \/ ClipRaster
    \/ Estimate
    \/ ExceptClause
    \/ Record
    \/ Centroid
    \/ Dispatch
    \/ CloseCsv
    \/ SubmitTraits
    \/ Annotate
    \/ EndMessage

Spec == Init /\ [][Next]_vars

\* process_message is one thread of straight-line code and every call it
\* makes returns or raises: a run that can take a step takes one.
FairSpec == Spec /\ WF_vars(Next)

\* ---------------------------------------------- check_message and the host

\* Atoms that are one character long; every other atom is a longer run.
Digits == {"0", "1", "2", "3", "4", "5", "6", "7", "8", "9"}
SingleChars == Digits \cup {".", "x", "f", "_"}

\* s.find(token) > -1, for a token that is an atom of s when it occurs.
Contains(s, token) == \E i \in 1..Len(s) : s[i] = token

\* re.match("^.*\d+_rgb_.*thumb.tif", s): from the start, anything, at least
\* one digit, "_rgb_", anything, "thumb", any one character, "tif"; what
\* follows "tif" is not looked at.
ReMatch(s) ==
    \E i, k \in 1..Len(s) :
        /\ s[i] \in Digits
        /\ i + 1 < k
        /\ s[i + 1] = "_rgb_"
        /\ s[k] = "thumb"
        /\ k + 2 <= Len(s)
        /\ s[k + 1] \in SingleChars
        /\ s[k + 2] = "tif"

\* Names of the resources a message may be about.
ResourceNames ==
    { ThumbName,
      <<"stereoTop", "_L1_ua-mac_", "2", "0", "1", "6", "_rgb_", "thumb", ".", "tif">>,
      <<"fullfield", "_L1_ua-mac_", "_rgb_", "thumb", ".", "tif">>,
      <<"fullfield", "_L1_ua-mac_", "2", "0", "1", "6", "_rgb_", "1", "0", "pct", ".", "tif">>,
      <<"fullfield", "_L1_ua-mac_", "2", "0", "1", "6", "_ir_", "thumb", ".", "tif">>,
      <<"fullfield", "_L1_ua-mac_", "2", "0", "1", "6", "_rgb_", "thumb", ".", "tif", "f">>,
      <<"fullfield", "_L1_ua-mac_", "2", "0", "1", "6", "_rgb_", "thumb", "x", "tif">> }

\* check_message that never looks at the dataset's metadata.
CheckMessageNoMetadata ==
    /\ pc = "idle"
    /\ messages < MaxMessages
    /\ \E name \in ResourceNames :
          /\ res_name' = name
          /\ IF Contains(name, "fullfield") /\ ReMatch(name)
             THEN /\ check_result' = "download"
                  /\ pc' = "start"
                  /\ UNCHANGED <<messages, log>>
             ELSE /\ log' = Append(log, LogEntry("skip", "regex not matched", name))
                  /\ check_result' = "ignore"
                  /\ messages' = messages + 1
                  /\ pc' = "idle"
    /\ UNCHANGED << host, timestamp, out_csv, csv_file, traits, all_plots, idx, plotname,
                    bounds, pxdims, ccVal, successful_plots, centroid_lonlat, dp_calls,
                    submit_calls, upload_calls, ended, exc, trace, overwrite, dsvars, rt >>

\* Lines 71-83: check_message. download_metadata returns the dataset's
\* metadata or raises; get_extractor_metadata finds this extractor's entry
\* exactly when the dataset carries one. On download the host goes on to
\* process_message with the same resource.
CheckMessage ==
    /\ pc = "idle"
    /\ messages < MaxMessages
    /\ \E name \in ResourceNames :
          /\ res_name' = name
          /\ IF Contains(name, "fullfield") /\ ReMatch(name)
             THEN \/ /\ check_result' = "raised"
                     /\ messages' = messages + 1
                     /\ pc' = "idle"
                     /\ UNCHANGED log
                  \/ IF ds_md /\ ~overwrite
                     THEN /\ log' = Append(log, LogEntry("skip", "already processed", name))
                          /\ check_result' = "ignore"
                          /\ messages' = messages + 1
                          /\ pc' = "idle"
                     ELSE /\ check_result' = "download"
                          /\ pc' = "start"
                          /\ UNCHANGED <<messages, log>>
             ELSE /\ log' = Append(log, LogEntry("skip", "regex not matched", name))
                  /\ check_result' = "ignore"
                  /\ messages' = messages + 1
                  /\ pc' = "idle"
    /\ UNCHANGED << host, timestamp, out_csv, csv_file, traits, all_plots, idx, plotname,
                    bounds, pxdims, ccVal, successful_plots, centroid_lonlat, dp_calls,
                    submit_calls, upload_calls, ended, exc, trace, overwrite, dsvars, rt >>

\* Lines 156-158: extractor.start() takes the next message once
\* process_message has returned or raised; nothing of the finished run is kept
\* but what it left on the dataset.
HostReturn ==
    /\ pc \in {"done", "failed"}
    /\ messages < MaxMessages
    /\ pc' = "idle"
    /\ messages' = messages + 1
    /\ check_result' = "none"
    /\ res_name' = <<>>
    /\ timestamp' = <<>>
    /\ out_csv' = <<>>
    /\ csv_file' = [state |-> "unopened", content |-> <<>>, closes |-> 0]
    /\ traits' = InitialTraits
    /\ all_plots' = <<>>
    /\ idx' = 0
    /\ plotname' = <<>>
    /\ bounds' = [geojson |-> "none", plot |-> 0]
    /\ pxdims' = 0
    /\ ccVal' = Unbound
    /\ successful_plots' = 0
    /\ centroid_lonlat' = <<>>
    /\ dp_calls' = <<>>
    /\ submit_calls' = <<>>
    /\ upload_calls' = <<>>
    /\ ended' = FALSE
    /\ log' = <<>>
    /\ exc' = <<>>
    /\ trace' = <<>>
    /\ UNCHANGED <<host, overwrite, dsvars, rt>>

\* The extractor waiting for its first message, the dataset not yet annotated.
InitDataset ==
    /\ pc = "idle"
    /\ host = <<"https://clowder">>
    /\ timestamp = <<>>
    /\ out_csv = <<>>
    /\ csv_file = [state |-> "unopened", content |-> <<>>, closes |-> 0]
    /\ traits = InitialTraits
    /\ all_plots = <<>>
    /\ idx = 0
    /\ plotname = <<>>
    /\ bounds = [geojson |-> "none", plot |-> 0]
    /\ pxdims = 0
    /\ ccVal = Unbound
    /\ successful_plots = 0
    /\ centroid_lonlat = <<>>
    /\ dp_calls = <<>>
    /\ submit_calls = <<>>
    /\ upload_calls = <<>>
    /\ ended = FALSE
    /\ log = <<>>
    /\ exc = <<>>
    /\ trace = <<>>
    /\ res_name = <<>>
    /\ overwrite \in BOOLEAN
    /\ check_result = "none"
    /\ messages = 0
    /\ ds_md = FALSE
    /\ annotation_attempted = FALSE
    /\ annotation_returned = FALSE
    /\ rt = NoRoundTrip

NextDataset ==
    \/ CheckMessage
    \/ HostReturn
    \/ StartMessage
    \/ OpenCsv
    \/ Enumerate
    \/ LoopHead
    \/ ClipRaster
    \/ Estimate
    \/ ExceptClause
    \/ Record
    \/ Centroid
    \/ Dispatch
    \/ CloseCsv
    \/ SubmitTraits
    \/ Annotate
    \/ EndMessage

\* Messages about one dataset, checked and processed one after the other.
SpecDataset == InitDataset /\ [][NextDataset]_vars

\* ------------------------------------------------- a row written and read

\* Values a field of the trait list may hold: the empty string, the empty
\* list, a plain string and the citation author with its comma.
RowValues ==
    { PyS(<<>>), PyEmptyList, PyS(<<"\"Zongyang", COMMA, " Li\"">>) }

runvars ==
    << pc, host, timestamp, out_csv, csv_file, traits, all_plots, idx, plotname, bounds,
       pxdims, ccVal, successful_plots, centroid_lonlat, dp_calls, submit_calls,
       upload_calls, ended, log, exc, trace >>

\* Line 127: the trait list is joined with ',' and written as one line.
WriteRow ==
    /\ pc = "row"
    /\ rt.step = "list"
    /\ rt' = [rt EXCEPT !.step = "written", !.line = RowLine(rt.fields)]
    /\ UNCHANGED <<runvars, hostvars, dsvars>>

\* Line 143: the reader of the CSV takes the line without its newline and
\* splits it on ','.
ReadRow ==
    /\ pc = "row"
    /\ rt.step = "written"
    /\ rt' = [rt EXCEPT !.step = "read",
                        !.parts = Split(SubSeq(rt.line, 1, Len(rt.line) - 1), COMMA)]
    /\ UNCHANGED <<runvars, hostvars, dsvars>>

\* Any nine-field trait list about to be written.
InitRow ==
    /\ pc = "row"
    /\ host = <<"https://clowder">>
    /\ timestamp = <<>>
    /\ out_csv = <<>>
    /\ csv_file = [state |-> "unopened", content |-> <<>>, closes |-> 0]
    /\ traits = InitialTraits
    /\ all_plots = <<>>
    /\ idx = 0
    /\ plotname = <<>>
    /\ bounds = [geojson |-> "none", plot |-> 0]
    /\ pxdims = 0
    /\ ccVal = Unbound
    /\ successful_plots = 0
    /\ centroid_lonlat = <<>>
    /\ dp_calls = <<>>
    /\ submit_calls = <<>>
    /\ upload_calls = <<>>
    /\ ended = FALSE
    /\ log = <<>>
    /\ exc = <<>>
    /\ trace = <<>>
    /\ res_name = ThumbName
    /\ overwrite = FALSE
    /\ check_result = "download"
    /\ messages = 0
    /\ ds_md = FALSE
    /\ annotation_attempted = FALSE
    /\ annotation_returned = FALSE
    /\ \E f \in [1..Len(fields) -> RowValues] :
          rt = [step |-> "list", fields |-> f, line |-> <<>>, parts |-> <<>>]

NextRow == WriteRow \/ ReadRow

\* One trait list written to the CSV and read back.
SpecRow == InitRow /\ [][NextRow]_vars

\* -------------------------------------------------- observations of a run

Last(q) == q[Len(q)]

\* The lines written to the CSV so far, without their newline (every write
\* is one whole line).
CsvLines ==
    [i \in 1..Len(csv_file.content) |->
        LET w == csv_file.content[i] IN
        IF EndsWith(w, NL) THEN SubSeq(w, 1, Len(w) - 1) ELSE w]

\* The data rows: every line after the header.
DataRows == IF Len(CsvLines) = 0 THEN <<>> ELSE Tail(CsvLines)

\* The site field of a data row (the fifth; the four before it hold no comma).
RowSite(row) == Split(row, COMMA)[5]

RowPlots == {RowSite(DataRows[i]) : i \in 1..Len(DataRows)}

\* The calls of one library function, in order.
CallsOf(op) == SelectSeq(trace, LAMBDA e : e.op = op)

PlotsCalled(op) == {trace[i].arg : i \in {j \in 1..Len(trace) : trace[j].op = op}}

\* Plots for which create_datapoint_with_dependencies was invoked.
DispatchedPlots == PlotsCalled("create_datapoint_with_dependencies")

\* Plots taken by the for loop so far.
AttemptedPlots == {all_plots[i] : i \in 1..idx}

\* Plots whose clip came back with fewer than 3 dimensions.
DegeneratePlots ==
    {trace[i].arg : i \in {j \in 1..Len(trace) :
        /\ trace[j].op = "clip_raster"
        /\ trace[j].ret.ok
        /\ trace[j].ret.val < 3}}

\* Plots whose clip_raster or calculate_canopycover raised.
RaisedPlots ==
    {trace[i].arg : i \in {j \in 1..Len(trace) :
        /\ trace[j].op \in {"clip_raster", "calculate_canopycover"}
        /\ ~trace[j].ret.ok}}

\* get_site_boundaries has returned (line 102 logged its result).
EnumerationReturned == \E i \in 1..Len(log) : log[i].what = "found plots"

Terminated == pc \in {"done", "failed"}

\* ------------------------------------------------------------------ claims

\* C1: at every loop-iteration boundary and at the end of any run, completed
\* or aborted, the plots with a data row in the CSV are exactly the plots for
\* which create_datapoint_with_dependencies was invoked.
C1_RowsMatchDispatches ==
    pc \in {"loop", "done", "failed"} => RowPlots = DispatchedPlots

\* C2: an exception of clip_raster or calculate_canopycover for one plot is
\* confined to that plot: it is logged, the plot gets no row and no data
\* point, and the run goes on instead of ending in the failed state.
C2_PlotExceptionConfined ==
    \A p \in RaisedPlots :
        /\ p \notin RowPlots
        /\ p \notin DispatchedPlots
        /\ pc # "except" =>
              /\ \E i \in 1..Len(log) :
                     log[i] = LogEntry("error", "error generating cc", p)
              /\ ~(pc = "failed" /\ Last(exc) = "TypeError")

\* The value calculate_canopycover returned for plot p.
EstimateOf(p) ==
    LET i == CHOOSE j \in 1..Len(trace) :
                 /\ trace[j].op = "calculate_canopycover"
                 /\ trace[j].arg = p
                 /\ trace[j].ret.ok
    IN trace[i].ret.val

\* The row and the data point of plot p in a run that enumerates p alone.
RowAlone(p) ==
    Join(MapStr(generate_traits_list(
        [InitialTraits EXCEPT !.canopy_cover = PyS(PyStrFloat(EstimateOf(p))),
                              !.site = PyS(p),
                              !.local_datetime = PyS(timestamp \o <<"T12:00:00">>)])),
         COMMA)

PointAlone(p) ==
    LET c == CentroidOf(BoundsOf(p)).coordinates IN
    [ name       |-> <<"Canopy Cover">>,
      location   |-> <<c[2], c[1]>>,
      start_time |-> timestamp \o <<"T12:00:00-07:00">>,
      end_time   |-> timestamp \o <<"T12:00:00-07:00">>,
      metadata   |-> [ source |-> host \o (IF EndsWith(host, "/") THEN <<>> ELSE <<"/">>)
                                       \o <<"files", "/">> \o resource.id,
                       canopy_cover |-> EstimateOf(p) ],
      key        |-> timestamp ]

\* The plots taken so far with the degenerate ones left out, in order.
KeptPlots == SelectSeq(SubSeq(all_plots, 1, idx), LAMBDA p : p \notin DegeneratePlots)

\* C3: a plot whose clip has fewer than 3 dimensions gets no row and no data
\* point and is counted in plots_skipped, and the rows and data points of the
\* run are those of the same run without the degenerate plots enumerated.
C3_DegeneratePlotIsolated ==
    /\ \A p \in DegeneratePlots : p \notin RowPlots /\ p \notin DispatchedPlots
    /\ \A i \in 1..Len(upload_calls) :
          /\ DegeneratePlots \subseteq (AttemptedPlots \ RowPlots)
          /\ upload_calls[i].content.plots_skipped = Cardinality(AttemptedPlots \ RowPlots)
    /\ Len(DataRows) <= Len(KeptPlots)
    /\ Len(dp_calls) <= Len(DataRows)
    /\ \A k \in 1..Len(DataRows) : DataRows[k] = RowAlone(KeptPlots[k])
    /\ \A k \in 1..Len(dp_calls) : dp_calls[k] = PointAlone(KeptPlots[k])
    /\ pc \in {"loop", "close", "submit", "annotate", "end", "done"} =>
          /\ Len(DataRows) = Len(KeptPlots)
          /\ Len(dp_calls) = Len(KeptPlots)

\* C3 happens: a completed run in which a degenerate plot came before a plot
\* that got its row.
C3_Witness ==
    /\ pc = "done"
    /\ \E i, j \in 1..Len(all_plots) :
          /\ i < j
          /\ all_plots[i] \in DegeneratePlots
          /\ all_plots[j] \in RowPlots

\* C4: on every exit path after the CSV file was opened, the file handle is
\* closed, and closed exactly once.
C4_ClosedOnceOnEveryExit ==
    (Terminated /\ csv_file.state # "unopened") =>
        (csv_file.state = "closed" /\ csv_file.closes = 1)

\* C5 as claimed: an exception of the centroid computation or of
\* create_datapoint_with_dependencies is caught by the per-plot handler and
\* does not abort the run.
C5_DispatchExceptionCaught ==
    \A i \in 1..Len(exc) :
        exc[i] \in {"centroid_from_geojson", "create_datapoint_with_dependencies"}
            => pc # "failed"

\* C5 as amended: such an exception is not caught by the per-plot handler; it
\* leaves process_message at once: the run is failed, no later plot is taken,
\* the file stays open, nothing is submitted or annotated.
C5_DispatchExceptionAborts ==
    \A i \in 1..Len(exc) :
        exc[i] \in {"centroid_from_geojson", "create_datapoint_with_dependencies"} =>
            /\ pc = "failed"
            /\ i = Len(exc)
            /\ Last(trace).op = exc[i]
            /\ Last(trace).arg = all_plots[idx]
            /\ ~Last(trace).ret.ok
            /\ \A j \in 1..Len(log) : log[j].what # "error generating cc"
            /\ csv_file.state = "open"
            /\ submit_calls = <<>>
            /\ upload_calls = <<>>
            /\ ~ended

\* C5 happens: create_datapoint_with_dependencies raised with plots left.
C5_Witness ==
    /\ Len(exc) > 0
    /\ Last(exc) = "create_datapoint_with_dependencies"
    /\ idx < Len(all_plots)

\* Every enumerated plot was clipped and estimated without failure.
AllClippedAndEstimated ==
    \A i \in 1..Len(all_plots) :
        \E j \in 1..Len(trace) :
            /\ trace[j].op = "calculate_canopycover"
            /\ trace[j].arg = all_plots[i]
            /\ trace[j].ret.ok

\* C6: when all N enumerated plots clip and estimate successfully, the run
\* writes exactly N data rows and dispatches exactly N data points, one of
\* each per plot.
C6_OneRowAndPointPerPlot ==
    (Terminated /\ EnumerationReturned /\ AllClippedAndEstimated) =>
        /\ Len(DataRows) = Len(all_plots)
        /\ Len(dp_calls) = Len(all_plots)
        /\ RowPlots = {all_plots[i] : i \in 1..Len(all_plots)}
        /\ DispatchedPlots = RowPlots

\* C7: the annotation's plots_processed is the number of data rows written,
\* plots_skipped is the number of enumerated plots whose clip or estimate
\* failed (degenerate shape or exception), and the two add up to the number of
\* enumerated plots.
C7_SummaryCounts ==
    \A i \in 1..Len(upload_calls) :
        LET m == upload_calls[i].content IN
        /\ m.plots_processed = Len(DataRows)
        /\ m.plots_skipped = Cardinality(DegeneratePlots \cup RaisedPlots)
        /\ m.plots_processed + m.plots_skipped = Len(all_plots)

\* C7 happens: an annotation was built after both a processed and a skipped plot.
C7_Witness ==
    /\ Len(upload_calls) = 1
    /\ upload_calls[1].content.plots_processed > 0
    /\ upload_calls[1].content.plots_skipped > 0

\* C8: with an empty plot mapping the run goes straight to its end: the CSV
\* holds the header row alone, no data point is dispatched, the file is
\* closed, the bulk submission and the annotation are made, the annotation
\* reports 0 processed and 0 skipped, and only those two calls can fail the run.
C8_EmptyMappingRun ==
    (EnumerationReturned /\ Len(all_plots) = 0) =>
        /\ csv_file.content = <<HeaderLine>>
        /\ dp_calls = <<>>
        /\ pc \in {"loop", "close", "submit", "annotate", "end", "done", "failed"}
        /\ pc = "failed" => Last(exc) \in {"submit_traits", "upload_metadata"}
        /\ pc \in {"submit", "annotate", "end", "done", "failed"} =>
              (csv_file.state = "closed" /\ csv_file.closes = 1)
        /\ pc \in {"annotate", "end", "done"} =>
              /\ Len(submit_calls) = 1
              /\ submit_calls[1].content = <<HeaderLine>>
        /\ pc \in {"end", "done"} =>
              /\ Len(upload_calls) = 1
              /\ upload_calls[1].content.plots_processed = 0
              /\ upload_calls[1].content.plots_skipped = 0
        /\ pc = "done" => (ended /\ exc = <<>>)

\* C8 happens: a run over an empty mapping reached its end.
C8_Witness == EnumerationReturned /\ Len(all_plots) = 0 /\ pc = "done"

\* Position of a library call in the order the claim gives.
Stage(op) ==
    CASE op = "get_info" -> 0
      [] op = "open" -> 1
      [] op = "get_site_boundaries" -> 2
      [] op = "clip_raster" -> 3
      [] op = "calculate_canopycover" -> 4
      [] op = "write" -> 5
      [] op = "centroid_from_geojson" -> 6
      [] op = "create_datapoint_with_dependencies" -> 7
      [] op = "close" -> 8
      [] op = "submit_traits" -> 9
      [] op = "upload_metadata" -> 10
      [] op = "end_message" -> 11

PlotOps ==
    {"clip_raster", "calculate_canopycover", "write", "centroid_from_geojson",
     "create_datapoint_with_dependencies"}

PositionOf(p) == CHOOSE i \in 1..Len(all_plots) : all_plots[i] = p

\* C9: the calls of a run come in the order ENUMERATE, then per plot CLIP,
\* ESTIMATE, RECORD (row write, then dispatch), then SUBMIT_BULK, then
\* ANNOTATE_DATASET, then END; the bulk submission comes after every
\* enumerated plot was attempted and the file closed, the annotation after the
\* bulk submission returned.
C9_EventOrder ==
    /\ \A i, j \in 1..Len(trace) :
          i < j =>
            LET a == trace[i]
                b == trace[j]
            IN IF a.op \in PlotOps /\ b.op \in PlotOps
               THEN IF a.arg = b.arg
                    THEN Stage(a.op) < Stage(b.op)
                    ELSE PositionOf(a.arg) < PositionOf(b.arg)
               ELSE Stage(a.op) < Stage(b.op)
    /\ \A i \in 1..Len(trace) :
          (trace[i].op \in PlotOps /\ trace[i].op # "clip_raster") =>
              /\ i > 1
              /\ trace[i - 1].arg = trace[i].arg
              /\ trace[i - 1].ret.ok
              /\ Stage(trace[i - 1].op) = Stage(trace[i].op) - 1
    /\ submit_calls # <<>> =>
          /\ \A k \in 1..Len(all_plots) : all_plots[k] \in PlotsCalled("clip_raster")
          /\ csv_file.state = "closed"
          /\ submit_calls[1].content = csv_file.content
    /\ upload_calls # <<>> =>
          \E k \in 1..Len(trace) : trace[k].op = "submit_traits" /\ trace[k].ret.ok
    /\ ended =>
          \E k \in 1..Len(trace) : trace[k].op = "upload_metadata" /\ trace[k].ret.ok

\* C9 happens: a completed run over at least two plots, one recorded and one
\* skipped.
C9_Witness ==
    /\ pc = "done"
    /\ Len(all_plots) >= 2
    /\ Len(dp_calls) >= 1
    /\ DegeneratePlots # {}

\* C10: a failure of submit_traits propagates: no annotation is uploaded and
\* end_message is not reached; a failure of the annotation upload propagates
\* too, and end_message is not reached.
C10_SubmissionFailurePropagates ==
    /\ (\E k \in 1..Len(trace) : trace[k].op = "submit_traits" /\ ~trace[k].ret.ok) =>
          /\ pc = "failed"
          /\ Last(exc) = "submit_traits"
          /\ upload_calls = <<>>
          /\ ~ended
    /\ (\E k \in 1..Len(trace) : trace[k].op = "upload_metadata" /\ ~trace[k].ret.ok) =>
          /\ pc = "failed"
          /\ Last(exc) = "upload_metadata"
          /\ ~ended

\* C10 happens: submit_traits raised after rows were written.
C10_Witness ==
    /\ Len(trace) > 0
    /\ Last(trace).op = "submit_traits"
    /\ ~Last(trace).ret.ok
    /\ Len(DataRows) > 0

\* The plot whose row is the k-th data row: the k-th write of the loop.
RowPlot(k) == CallsOf("write")[k].arg

\* C11: every data row has its fields populated, its canopy_cover is the value
\* estimated for the row's own plot in this iteration, its site that plot's
\* name, its local_datetime the run's date at T12:00:00; no row carries a
\* placeholder of the traits table or a value of another plot.
C11_RowCarriesOwnPlot ==
    /\ Len(CallsOf("write")) = Len(DataRows)
    /\ \A k \in 1..Len(DataRows) :
          LET parts == Split(DataRows[k], COMMA)
              p == RowPlot(k)
          IN /\ Len(parts) >= Len(fields)
             /\ \A i \in 1..Len(parts) :
                   /\ parts[i] # <<>>
                   /\ parts[i] # PyStr(PyEmptyList)
             /\ parts[1] = timestamp \o <<"T12:00:00">>
             /\ parts[2] = PyStrFloat(EstimateOf(p))
             /\ parts[5] = p
             /\ p = KeptPlots[k]

\* C11 happens: two rows with different canopy-cover values were written
\* around a skipped plot.
C11_Witness ==
    /\ Len(DataRows) = 2
    /\ Split(DataRows[1], COMMA)[2] # Split(DataRows[2], COMMA)[2]
    /\ DegeneratePlots # {}
    /\ PositionOf(RowPlot(1)) + 1 < PositionOf(RowPlot(2))

\* The plot of the k-th data point: the k-th dispatch of the loop.
PointPlot(k) == CallsOf("create_datapoint_with_dependencies")[k].arg

\* The data row of plot p.
RowOf(p) == DataRows[CHOOSE k \in 1..Len(DataRows) : RowPlot(k) = p]

\* The host without its trailing slash, if it has one.
HostStem == IF EndsWith(host, "/") THEN SubSeq(host, 1, Len(host) - 1) ELSE host

\* C12: the data point of a plot has start and end time <date>T12:00:00-07:00,
\* its location is (lat, lon), the [lon, lat] centroid of the plot's own
\* boundary swapped, its variable is "Canopy Cover", its key the date, its
\* source the host, one "/", "files/" and the resource id, and its
\* canopy-cover value is the one written in the plot's CSV row.
C12_DataPointContent ==
    /\ Len(CallsOf("create_datapoint_with_dependencies")) = Len(dp_calls)
    /\ \A k \in 1..Len(dp_calls) :
          LET dp == dp_calls[k]
              p == PointPlot(k)
              lonlat == CentroidOf(BoundsOf(p)).coordinates
          IN /\ dp.start_time = timestamp \o <<"T12:00:00-07:00">>
             /\ dp.end_time = dp.start_time
             /\ dp.location = <<lonlat[2], lonlat[1]>>
             /\ dp.name = <<"Canopy Cover">>
             /\ dp.key = timestamp
             /\ dp.metadata.source = HostStem \o <<"/", "files", "/">> \o resource.id
             /\ p \in RowPlots
             /\ Split(RowOf(p), COMMA)[2] = PyStrFloat(dp.metadata.canopy_cover)

\* C12 happens: two data points with different values went out to a host
\* given with its trailing slash.
C12_Witness ==
    /\ Len(dp_calls) = 2
    /\ dp_calls[1].metadata.canopy_cover # dp_calls[2].metadata.canopy_cover
    /\ EndsWith(host, "/")
    /\ pc = "done"

\* The field names in the order the header is said to list them.
ListedOrder ==
    << "local_datetime", "canopy_cover", "access_level", "species", "site",
       "citation_author", "citation_year", "citation_title", "method" >>

\* A traits table in which every key holds its own name.
ProbeTraits == [k \in {ListedOrder[i] : i \in 1..Len(ListedOrder)} |-> PyS(<<k>>)]

\* C13: the header row lists the nine field names in the order in which
\* generate_traits_list emits the values of a data row: local_datetime,
\* canopy_cover, access_level, species, site, citation_author, citation_year,
\* citation_title, method.
C13_HeaderMatchesRowOrder ==
    csv_file.state # "unopened" =>
        LET header == Split(CsvLines[1], COMMA) IN
        /\ header = [i \in 1..Len(ListedOrder) |-> <<ListedOrder[i]>>]
        /\ MapStr(generate_traits_list(ProbeTraits)) = header
        /\ pc = "centroid" =>
              Last(CsvLines) =
                  Join([i \in 1..Len(header) |-> PyStr(traits[header[i][1]])], COMMA)

\* C13 happens: a data row has just been written under the header.
C13_Witness == pc = "centroid" /\ Len(DataRows) = 2

\* The file name the selection is about: digits, "_rgb_", anything, and
\* "thumb.tif" as the name's last characters.
FilenamePattern(s) ==
    /\ \E i \in 1..Len(s) : s[i] \in Digits /\ i + 3 < Len(s) /\ s[i + 1] = "_rgb_"
    /\ SubSeq(s, Len(s) - 2, Len(s)) = <<"thumb", ".", "tif">>

\* What check_message was asked about and answered, before the run it may
\* have started has touched the dataset.
Answered == pc \in {"idle", "start"} /\ check_result \in {"download", "ignore"}

\* C14: check_message returns download exactly when the resource name
\* contains "fullfield", matches the thumbnail file name pattern (digits, then
\* "_rgb_", then anything, ending in "thumb.tif"), and the dataset carries no
\* metadata of this extractor or overwrite is set; otherwise it returns ignore.
C14_DownloadExactlyForThumbnails ==
    Answered =>
        ( check_result = "download"
            <=> /\ Contains(res_name, "fullfield")
                /\ FilenamePattern(res_name)
                /\ (~ds_md \/ overwrite) )

\* C16: the dataset carries this extractor's metadata exactly when some run
\* reached the annotation step after its bulk submission, and then a later
\* check_message without overwrite returns ignore.
C16_MarkedIffAnnotationReached ==
    /\ ds_md <=> annotation_attempted
    /\ (Answered /\ ds_md /\ ~overwrite) => check_result = "ignore"

\* C16 as the code has it: the dataset is marked only if some run called
\* upload_metadata, which a run does only after submit_traits returned, and it
\* is marked whenever such a call returned; a call that raised may leave it
\* unmarked. A check_message without overwrite on a marked dataset returns
\* ignore, and one on an unmarked dataset is not held back by the metadata.
C16_MarkedOnlyByAnnotation ==
    /\ ds_md => annotation_attempted
    /\ annotation_returned => ds_md
    /\ upload_calls # <<>> =>
          \E i \in 1..Len(trace) : trace[i].op = "submit_traits" /\ trace[i].ret.ok
    /\ (Answered /\ ds_md /\ ~overwrite) => check_result = "ignore"
    /\ (Answered /\ ~ds_md /\ Contains(res_name, "fullfield") /\ ReMatch(res_name))
          => check_result = "download"

\* A second message about the annotated dataset was ignored.
C16_Witness ==
    /\ messages = 2
    /\ res_name = ThumbName
    /\ check_result = "ignore"
    /\ ds_md
    /\ ~overwrite

\* No field of the trait list prints with a comma in it.
CommaFree(trait_list) ==
    \A i \in 1..Len(trait_list) :
        \A j \in 1..Len(PyStr(trait_list[i])) : PyStr(trait_list[i])[j] # COMMA

\* C15: a trait list of nine values, joined with ',' as process_message joins
\* it and split on ',' again, gives back the nine values it was written from
\* whenever none of them contains a comma.
C15_RoundTrip ==
    (rt.step = "read" /\ CommaFree(rt.fields)) =>
        /\ Len(rt.parts) = 9
        /\ rt.parts = MapStr(rt.fields)

\* A comma-free row with an empty first and an empty last field was read back.
C15_Witness ==
    /\ rt.step = "read"
    /\ CommaFree(rt.fields)
    /\ rt.fields[1] = PyS(<<>>)
    /\ rt.fields[9] = PyS(<<>>)
    /\ rt.fields[5] = PyEmptyList

\* The number of times the loop body was entered for plot p: it begins with
\* the clip_raster call.
Attempts(p) == Len(SelectSeq(trace, LAMBDA e : e.op = "clip_raster" /\ e.arg = p))

EachPlotAtMostOnce ==
    /\ \A i \in 1..Len(all_plots) : Attempts(all_plots[i]) <= 1
    /\ pc = "done" => \A i \in 1..Len(all_plots) : Attempts(all_plots[i]) = 1

\* C17: every run of process_message over a finite plot mapping ends, at END
\* or failed, and enters the loop body at most once for each enumerated plot,
\* exactly once when the run completes.
C17_TerminatesEachPlotOnce == <>Terminated /\ []EachPlotAtMostOnce

\* A run over three plots completed.
C17_Witness ==
    /\ pc = "done"
    /\ Len(all_plots) = 3
    /\ \A i \in 1..3 : Attempts(all_plots[i]) = 1

\* Plots whose estimate came back: the plots the counter has counted.
CountedPlots ==
    {trace[i].arg : i \in {j \in 1..Len(trace) :
        trace[j].op = "calculate_canopycover" /\ trace[j].ret.ok}}

\* C18: at every loop-iteration boundary successful_plots is the number of
\* data rows written so far and is at most the number of plots attempted so
\* far; a plot is counted only if its row is then written, so the two differ
\* only between the count and the write of one plot.
C18_CounterMatchesRows ==
    /\ successful_plots <= idx
    /\ successful_plots = Cardinality(CountedPlots)
    /\ pc = "loop" => successful_plots = Len(DataRows)
    /\ pc = "record" => /\ successful_plots = Len(DataRows) + 1
                        /\ CountedPlots = RowPlots \cup {plotname}
    /\ pc # "record" => /\ successful_plots = Len(DataRows)
                        /\ CountedPlots = RowPlots

\* Back at the loop head after three plots, one of them not counted.
C18_Witness ==
    /\ pc = "loop"
    /\ idx = 3
    /\ successful_plots = 2
    /\ Len(DataRows) = 2

\* The parts a written line splits into on ','.
LineFields(i) == Split(CsvLines[i], COMMA)

\* C19: the header row and every data row split on ',' into nine fields.
C19_NineFieldsEveryLine ==
    \A i \in 1..Len(CsvLines) : Len(LineFields(i)) = 9

\* C19 as the code has it: the header splits on ',' into nine fields and every
\* data row into ten, the citation author of the trait table holding a comma
\* of its own: its two halves are the sixth and seventh part of every row.
C19_HeaderNineRowsTen ==
    \A i \in 1..Len(CsvLines) :
        IF i = 1
        THEN Len(LineFields(i)) = 9
        ELSE /\ Len(LineFields(i)) = 10
             /\ LineFields(i)[6] \o <<COMMA>> \o LineFields(i)[7]
                   = PyStr(InitialTraits.citation_author)
             /\ LineFields(i)[5] \in {PlotName(p) : p \in PlotIds}
             /\ LineFields(i)[8] = PyStr(InitialTraits.citation_year)

\* A header and two data rows are in the file.
C19_Witness == Len(CsvLines) = 3 /\ pc = "loop"

====
